---- MODULE Spec2Model ----
(***************************************************************************)
(* i3rustus: the TZif decoder and civil-time converter of the Time widget  *)
(* (src/widgets/time.rs), the decoding macros (src/utils/macros.rs) and    *)
(* the batch assembly of I3Status (src/i3_status.rs).                      *)
(*                                                                         *)
(* Three specifications:                                                   *)
(*   Spec        Time::new -> timezone_offset -> read_tz_info, one action  *)
(*               per stage of the decoder, over a family of input files    *)
(*               and both overflow-check settings of the build;            *)
(*   SpecTime    the constructed Time widget under update()/display_text();*)
(*   SpecStatus  I3Status::init's loop: update_widgets and widget_values.  *)
(*                                                                         *)
(* Integers: TLC's integers are 32-bit signed.  u8, i32 and the           *)
(* u32 header counts of the input family are held as numbers; every 64-bit *)
(* value (i64 transition time, u64 leap occurrence) is held as its eight   *)
(* little-endian bytes, and the comparisons on it are done on the bytes.   *)
(***************************************************************************)
EXTENDS Integers, Sequences, FiniteSets, TLC

VARIABLES
    buffer,           \* WalkingVec.buffer: the bytes of the time-zone file
    position,         \* WalkingVec.position
    overflow_checks,  \* build setting: TRUE panics on integer overflow, FALSE wraps
    kind,             \* which family of input the file was drawn from
    pass,             \* 1: first read_tz_info call of timezone_offset, 2: second
    block_start,      \* position at which the current read_tz_info call started
    pc,               \* the stage of read_tz_info / timezone_offset about to run
    result,           \* "running", or how the current read_tz_info call ended
    version,          \* read_tz_info's local `version` (0: not decoded yet)
    header,           \* read_tz_info's local `header`
    data,             \* read_tz_info's local `data`
    name,             \* Time.name
    full_text,        \* Time.full_text
    color,            \* Time.color
    tz_offset,        \* Time.tz_offset
    clock,            \* SystemTime::now() since UNIX_EPOCH, in seconds
    ticks,            \* seconds the clock has advanced since construction
    epoch,            \* now()'s local `epoch`: the last clock reading + tz_offset
    last_op,          \* the last Widget operation run on the Time widget
    displayed,        \* the last value display_text() returned
    widgets,          \* the Vec of widgets handed to I3Status::new
    widget_executors, \* I3Status.widget_executors: name -> executor
    widget_order,     \* Config::widget_order()
    updates,          \* update_widgets() calls made: UpdateWidgetValue sent to every executor
    st_pc,            \* position in I3Status::init
    idx,              \* widget_values: index of the next name of the order
    values,           \* widget_values: the batch under construction
    outcomes,         \* what each send(WidgetValue) of this batch answered
    printed           \* the last batch printed by init

tzvars == <<buffer, position, overflow_checks, kind, pass, block_start, pc,
            result, version, header, data>>
timevars == <<name, full_text, color, tz_offset, clock, ticks, epoch, last_op,
              displayed>>
statusvars == <<widgets, widget_executors, widget_order, updates, st_pc, idx,
                values, outcomes, printed>>
vars == <<tzvars, timevars, statusvars>>

(***************************************************************************)
(* Bounds of the input family.                                             *)
(***************************************************************************)
MaxCnt == 1
MaxTrunc == 50

(***************************************************************************)
(* Bytes and fixed-width integers.                                         *)
(***************************************************************************)
\* to_le_bytes of a non-negative number, w bytes wide (test inputs)
RECURSIVE Enc(_, _)
Enc(n, w) == IF w = 0 THEN <<>> ELSE <<n % 256>> \o Enc(n \div 256, w - 1)

RECURSIVE Repeat(_, _)
Repeat(s, n) == IF n = 0 THEN <<>> ELSE s \o Repeat(s, n - 1)

Zeros(n) == [i \in 1..n |-> 0]

\* u8::from_le_bytes / u32::from_le_bytes (counts of the input family are < 2^31)
RECURSIVE from_le_bytes_unsigned(_)
from_le_bytes_unsigned(bs) ==
    IF bs = <<>> THEN 0 ELSE Head(bs) + 256 * from_le_bytes_unsigned(Tail(bs))

\* i32::from_le_bytes
from_le_bytes_i32(bs) ==
    bs[1] + 256 * bs[2] + 65536 * bs[3]
        + 16777216 * (IF bs[4] >= 128 THEN bs[4] - 256 ELSE bs[4])

\* `x as i64` of an i32 given by its 4 bytes: sign extension to 8 bytes
i32_as_i64(bs) == bs \o (IF bs[4] >= 128 THEN <<255, 255, 255, 255>> ELSE Zeros(4))

\* `x as u64` of a u32 given by its 4 bytes: zero extension to 8 bytes
u32_as_u64(bs) == bs \o Zeros(4)

\* num > -2_i64.pow(59), num an i64 given by its 8 bytes.
\* -2^59 is 0xF800_0000_0000_0000; a non-negative num is greater, a negative
\* one is greater iff its bit pattern is greater as an unsigned number.
gt_minus_pow59(bs) ==
    \/ bs[8] < 128
    \/ bs[8] > 248
    \/ bs[8] = 248 /\ \E i \in 1..7 : bs[i] # 0

\* a - b on u64 values given by their 8 bytes: the wrapped difference and
\* whether the subtraction overflowed (a < b)
RECURSIVE SubBytes(_, _, _)
SubBytes(a, b, borrow) ==
    IF a = <<>> THEN [bytes |-> <<>>, overflow |-> borrow = 1]
    ELSE LET d == Head(a) - Head(b) - borrow
             r == SubBytes(Tail(a), Tail(b), IF d < 0 THEN 1 ELSE 0)
         IN [bytes |-> <<d % 256>> \o r.bytes, overflow |-> r.overflow]

u64_sub(a, b) == SubBytes(a, b, 0)

\* x >= 2419199 for a u64 x given by its 8 bytes
ge_2419199(bs) ==
    \/ \E i \in 4..8 : bs[i] # 0
    \/ bs[1] + 256 * bs[2] + 65536 * bs[3] >= 2419199

\* header.timecnt * time_size in u32, time_size 4 or 8.  The product is only
\* ever a loop bound and every iteration consumes at least one byte, so a
\* wrapped product above the buffer's length is held as Len(buffer) + 1.
mul_u32(a, b) ==
    LET m == (1024 * 1024 * 1024) \div (b \div 4)   \* 2^32 / b
        r == a % m
    IN [overflow |-> a >= m,
        value |-> IF r > Len(buffer) THEN Len(buffer) + 1 ELSE r * b]

\* 2_i32.pow(32): i32::pow inherits the overflow checks of the calling crate;
\* it panics under overflow checks and is 2^32 mod 2^32 = 0 with wrapping
i32_pow_2_32 == [panics |-> overflow_checks, value |-> 0]

(***************************************************************************)
(* WalkingVec::walk and the macros of utils/macros.rs.                     *)
(***************************************************************************)
\* WalkingVec::walk(n) from position pos: the n bytes consumed and the new
\* position; asking for more than remains is fatal.
walk(pos, n) ==
    IF pos + n <= Len(buffer)
    THEN [ok |-> TRUE, pos |-> pos + n, bytes |-> SubSeq(buffer, pos + 1, pos + n)]
    ELSE [ok |-> FALSE, pos |-> pos, bytes |-> <<>>]

\* walk_to_number!(array, type): walks size_of::<type>() bytes; the caller
\* applies the from_le_bytes of the type to .bytes
walk_to_number(pos, size) == walk(pos, size)

\* the fields of one record, walked one after the other
RECURSIVE walk_fields(_, _, _)
walk_fields(pos, sizes, acc) ==
    IF sizes = <<>> THEN [ok |-> TRUE, pos |-> pos, fields |-> acc]
    ELSE LET w == walk_to_number(pos, Head(sizes))
         IN IF ~w.ok THEN [ok |-> FALSE, pos |-> w.pos, fields |-> acc]
            ELSE walk_fields(w.pos, Tail(sizes), Append(acc, w.bytes))

\* The closures handed to walk_until_with_condition!: "keep", "drop", or
\* "panic" when header.typecnt - 1 overflows under overflow checks.  With
\* wrapping, 0 - 1 is 2^32 - 1, above every u8.
lt_typecnt_minus_1(value, typecnt) ==
    IF typecnt = 0
    THEN (IF overflow_checks THEN "panic" ELSE "keep")
    ELSE (IF value < typecnt - 1 THEN "keep" ELSE "drop")

is_zero_or_one(value) == IF value = 0 \/ value = 1 THEN "keep" ELSE "drop"

condition(which, value, typecnt) ==
    IF which = "lt_typecnt_minus_1" THEN lt_typecnt_minus_1(value, typecnt)
    ELSE is_zero_or_one(value)

\* walk_until_with_condition!(array, 0..n, 1, condition, u8, u8)
RECURSIVE walk_until_with_condition(_, _, _, _, _)
walk_until_with_condition(pos, n, which, typecnt, items) ==
    IF n = 0 THEN [ok |-> TRUE, pos |-> pos, items |-> items]
    ELSE LET w == walk_to_number(pos, 1)
         IN IF ~w.ok THEN [ok |-> FALSE, pos |-> w.pos, items |-> items]
            ELSE LET walked_value == from_le_bytes_unsigned(w.bytes)
                     c == condition(which, walked_value, typecnt)
                 IN IF c = "panic" THEN [ok |-> FALSE, pos |-> w.pos, items |-> items]
                    ELSE walk_until_with_condition(w.pos, n - 1, which, typecnt,
                            IF c = "keep" THEN Append(items, walked_value) ELSE items)

(***************************************************************************)
(* read_tz_info: header.                                                   *)
(***************************************************************************)
MAGIC == <<84, 90, 105, 102>>      \* "TZif"

VersionBytes == {0, 50, 51, 52}    \* 0x00, 0x32, 0x33, 0x34

\* the match on the version byte; 0 stands for the `_` arm
version_of_swapped(b) ==
    IF b = 0 THEN 1 ELSE IF b = 50 THEN 3 ELSE IF b = 51 THEN 2
    ELSE IF b = 52 THEN 4 ELSE 0

version_of(b) ==
    IF b = 0 THEN 1 ELSE IF b = 50 THEN 2 ELSE IF b = 51 THEN 3
    ELSE IF b = 52 THEN 4 ELSE 0

NoHeader ==
    [version |-> 0, isutcnt |-> 0, isstdcnt |-> 0, leapcnt |-> 0,
     timecnt |-> 0, typecnt |-> 0, charcnt |-> 0]

\* TzHeader { version, isutcnt: .., isstdcnt: .., .. }: c holds the six u32
\* in the order they are walked
TzHeader_swapped(v, c) ==
    [version |-> v, isutcnt |-> c[1], isstdcnt |-> c[2], leapcnt |-> c[3],
     timecnt |-> c[5], typecnt |-> c[4], charcnt |-> c[6]]

TzHeader(v, c) ==
    [version |-> v, isutcnt |-> c[1], isstdcnt |-> c[2], leapcnt |-> c[3],
     timecnt |-> c[4], typecnt |-> c[5], charcnt |-> c[6]]

EmptyData ==
    [transition_times |-> <<>>, transition_types |-> <<>>,
     local_time_type_records |-> <<>>, time_zone_designations |-> <<>>,
     leap_second_records |-> <<>>, standard_wall_indicators |-> <<>>,
     ut_local_indicators |-> <<>>]

time_size(h) == IF h.version > 1 THEN 8 ELSE 4

(***************************************************************************)
(* read_tz_info: the loops of the data block.  Each gives ok (FALSE: the   *)
(* loop panicked), the position reached and the items retained.            *)
(***************************************************************************)
\* for _ in 0..(header.timecnt * time_size) { walk_to_number!(.., i64 / i32) }
RECURSIVE transition_times_loop(_, _, _, _)
transition_times_loop(n, size, pos, items) ==
    IF n = 0 THEN [ok |-> TRUE, pos |-> pos, items |-> items]
    ELSE LET w == walk_to_number(pos, size)
         IN IF ~w.ok THEN [ok |-> FALSE, pos |-> w.pos, items |-> items]
            ELSE LET num == IF size = 8 THEN w.bytes ELSE i32_as_i64(w.bytes)
                 IN transition_times_loop(n - 1, size, w.pos,
                        IF gt_minus_pow59(num) THEN Append(items, num) ELSE items)

\* for _ in 0..header.typecnt { utoff, dst, idx }
RECURSIVE local_time_type_loop(_, _, _)
local_time_type_loop(n, pos, items) ==
    IF n = 0 THEN [ok |-> TRUE, pos |-> pos, items |-> items]
    ELSE LET r == walk_fields(pos, <<4, 1, 1>>, <<>>)
         IN IF ~r.ok \/ i32_pow_2_32.panics
            THEN [ok |-> FALSE, pos |-> r.pos, items |-> items]
            ELSE LET utoff == from_le_bytes_i32(r.fields[1])
                     dst == from_le_bytes_unsigned(r.fields[2])
                     desig_idx == from_le_bytes_unsigned(r.fields[3])
                     keep == /\ utoff # -(i32_pow_2_32.value)
                             /\ utoff > -89999
                             /\ utoff < 93599
                             /\ (dst = 0 \/ dst = 1)
                 IN local_time_type_loop(n - 1, r.pos,
                        IF keep THEN Append(items, <<utoff, dst, desig_idx>>) ELSE items)

\* for index in 0..header.typecnt { occur, corr; index == 0 || occur -
\* data.leap_second_records[index].0 >= 2419199 }.  records[index] is the
\* element at 1-based place index + 1; indexing past the end panics.
RECURSIVE leap_second_loop(_, _, _, _, _)
leap_second_loop(index, n, v, pos, records) ==
    IF index = n THEN [ok |-> TRUE, pos |-> pos, items |-> records]
    ELSE LET r == walk_fields(pos, <<(IF v > 1 THEN 8 ELSE 4), 4>>, <<>>)
         IN IF ~r.ok THEN [ok |-> FALSE, pos |-> r.pos, items |-> records]
            ELSE LET occur == IF v > 1 THEN r.fields[1] ELSE u32_as_u64(r.fields[1])
                     corr == from_le_bytes_i32(r.fields[2])
                 IN IF index = 0
                    THEN leap_second_loop(index + 1, n, v, r.pos,
                                          Append(records, <<occur, corr>>))
                    ELSE IF index + 1 > Len(records)
                    THEN [ok |-> FALSE, pos |-> r.pos, items |-> records]
                    ELSE LET d == u64_sub(occur, records[index + 1][1])
                         IN IF d.overflow /\ overflow_checks
                            THEN [ok |-> FALSE, pos |-> r.pos, items |-> records]
                            ELSE leap_second_loop(index + 1, n, v, r.pos,
                                    IF ge_2419199(d.bytes)
                                    THEN Append(records, <<occur, corr>>)
                                    ELSE records)

(***************************************************************************)
(* The input files.                                                        *)
(***************************************************************************)
CountFields == {"isutcnt", "isstdcnt", "leapcnt", "timecnt", "typecnt", "charcnt"}

Counts(isut, isstd, leap, time, type, char) ==
    [isutcnt |-> isut, isstdcnt |-> isstd, leapcnt |-> leap,
     timecnt |-> time, typecnt |-> type, charcnt |-> char]

\* the 44-byte header as the decoder reads it
HeaderBytes(magic, verByte, c) ==
    magic \o <<verByte>> \o Zeros(15)
        \o Enc(c.isutcnt, 4) \o Enc(c.isstdcnt, 4) \o Enc(c.leapcnt, 4)
        \o Enc(c.timecnt, 4) \o Enc(c.typecnt, 4) \o Enc(c.charcnt, 4)

\* a data block laid out as the format describes it: ts-byte times
BodyBytes(c, ts, fill) ==
    Repeat(Enc(fill, ts), c.timecnt) \o Repeat(<<0>>, c.timecnt)
        \o Repeat(Enc(3600, 4) \o <<fill, 0>>, c.typecnt)
        \o Repeat(<<fill>>, c.charcnt)
        \o Repeat(Enc(fill, ts) \o Enc(1, 4), c.leapcnt)
        \o Repeat(<<fill>>, c.isstdcnt) \o Repeat(<<fill>>, c.isutcnt)

Block(verByte, c, ts, fill) == HeaderBytes(MAGIC, verByte, c) \o BodyBytes(c, ts, fill)

\* the length of a block laid out as the format describes it
BlockLen(c, ts) ==
    44 + ts * c.timecnt + c.timecnt + 6 * c.typecnt + c.charcnt
       + (ts + 4) * c.leapcnt + c.isstdcnt + c.isutcnt

\* version >= 2: a version-1-shaped block, then the block with 8-byte times
Dual(verByte, c, fill) == Block(verByte, c, 4, fill) \o Block(verByte, c, 8, fill)

\* timecnt=0, typecnt=1, leapcnt=0, isstdcnt=0, isutcnt=0, charcnt=1, one
\* local time type record (3600, 0, 0) and one designation byte
MinimalV1 ==
    HeaderBytes(MAGIC, 0, Counts(0, 0, 0, 0, 1, 1))
        \o Enc(3600, 4) \o <<0, 0>> \o <<0>>

\* version 1, three local time types and three leap-second records with
\* occurrences 0, 2419198, 2419199
LeapOccurrences == <<0, 2419198, 2419199>>

LeapFile ==
    HeaderBytes(MAGIC, 0, Counts(0, 0, 3, 0, 3, 0))
        \o Repeat(Enc(3600, 4) \o <<0, 0>>, 3)
        \o Enc(LeapOccurrences[1], 4) \o Enc(1, 4)
        \o Enc(LeapOccurrences[2], 4) \o Enc(2, 4)
        \o Enc(LeapOccurrences[3], 4) \o Enc(3, 4)

\* version 1, timecnt = 2^30 and nothing else
HugeCount ==
    MAGIC \o <<0>> \o Zeros(15) \o Zeros(12) \o <<0, 0, 0, 64>> \o Zeros(8)

Fill == {0, 1}
CountVectors == [CountFields -> 0..MaxCnt]
AllOnes == Counts(1, 1, 1, 1, 1, 1)

Files ==
    {[kind |-> "single", bytes |-> Block(b, c, 4, f)] :
        b \in VersionBytes \cup {49}, c \in CountVectors, f \in Fill}
    \cup {[kind |-> "dual", bytes |-> Dual(b, c, f)] :
        b \in VersionBytes \ {0}, c \in CountVectors, f \in Fill}
    \cup {[kind |-> "truncated", bytes |-> SubSeq(Block(0, AllOnes, 4, 1), 1, n)] :
        n \in 0..MaxTrunc}
    \cup {[kind |-> "badmagic",
           bytes |-> HeaderBytes(<<84, 90, 105, 120>>, b, AllOnes) \o BodyBytes(AllOnes, 4, 1)] :
        b \in {0, 49}}
    \cup {[kind |-> "badmagic", bytes |-> <<0, 0, 0, 0>>],
          [kind |-> "minimal", bytes |-> MinimalV1],
          [kind |-> "leap", bytes |-> LeapFile],
          [kind |-> "huge", bytes |-> HugeCount]}

(***************************************************************************)
(* Time::new -> timezone_offset -> read_tz_info.                           *)
(***************************************************************************)
NEUTRAL == "NEUTRAL"

\* the value of display_text(): the serialized fields of the widget
Serialized(n, t, c, o) == [name |-> n, full_text |-> t, color |-> c, tz_offset |-> o]

NotBuilt ==
    /\ name = "" /\ full_text = "" /\ color = "" /\ tz_offset = 0
    /\ clock = 0 /\ ticks = 0 /\ epoch = 0 /\ last_op = "none"
    /\ displayed = Serialized("", "", "", 0)

StatusIdle ==
    /\ widgets = <<>> /\ widget_executors = <<>> /\ widget_order = <<>>
    /\ updates = 0 /\ st_pc = "idle" /\ idx = 0 /\ values = <<>>
    /\ outcomes = <<>> /\ printed = <<>>

\* file::read_file_to_vec(..).unwrap() has given the buffer, position 0
Init ==
    /\ \E f \in Files : buffer = f.bytes /\ kind = f.kind
    /\ overflow_checks \in BOOLEAN
    /\ position = 0 /\ pass = 1 /\ block_start = 0
    /\ pc = "magic" /\ result = "running"
    /\ version = 0 /\ header = NoHeader /\ data = EmptyData
    /\ NotBuilt /\ StatusIdle

At(stage) == pc = stage /\ result = "running"

Panic(pos) ==
    /\ position' = pos
    /\ result' = "panic"
    /\ UNCHANGED <<pc, version, header, data>>

ReturnNone(pos) ==
    /\ position' = pos
    /\ result' = "None"
    /\ pc' = "returned"
    /\ UNCHANGED <<version, header, data>>

Frame == UNCHANGED <<buffer, overflow_checks, kind, pass, block_start, timevars, statusvars>>

\* if tz_info_bytes.walk(4) != [0x54, 0x5A, 0x69, 0x66] { return None; }
read_magic ==
    /\ At("magic")
    /\ LET w == walk(position, 4)
       IN IF ~w.ok THEN Panic(w.pos)
          ELSE IF w.bytes # MAGIC THEN ReturnNone(w.pos)
          ELSE /\ position' = w.pos
               /\ pc' = "version"
               /\ UNCHANGED <<result, version, header, data>>
    /\ Frame

\* let version = match walk_to_number!(tz_info_bytes, u8) { .. }
read_version ==
    /\ At("version")
    /\ LET w == walk_to_number(position, 1)
       IN IF ~w.ok THEN Panic(w.pos)
          ELSE LET v == version_of(from_le_bytes_unsigned(w.bytes))
               IN IF v = 0 THEN ReturnNone(w.pos)
                  ELSE /\ position' = w.pos
                       /\ version' = v
                       /\ pc' = "reserved"
                       /\ UNCHANGED <<result, header, data>>
    /\ Frame

\* tz_info_bytes.walk(15);
skip_reserved ==
    /\ At("reserved")
    /\ LET w == walk(position, 15)
       IN IF ~w.ok THEN Panic(w.pos)
          ELSE /\ position' = w.pos
               /\ pc' = "counts"
               /\ UNCHANGED <<result, version, header, data>>
    /\ Frame

\* let header = TzHeader { version, isutcnt: walk_to_number!(.., u32), .. };
\* let mut data = TzDataBlock { .. };
read_counts ==
    /\ At("counts")
    /\ LET r == walk_fields(position, <<4, 4, 4, 4, 4, 4>>, <<>>)
       IN IF ~r.ok THEN Panic(r.pos)
          ELSE /\ position' = r.pos
               /\ header' = TzHeader(version,
                                [i \in 1..6 |-> from_le_bytes_unsigned(r.fields[i])])
               /\ data' = EmptyData
               /\ pc' = "transition_times"
               /\ UNCHANGED <<result, version>>
    /\ Frame

\* the two transition-time loops (version > 1: i64, else i32 as i64)
read_transition_times ==
    /\ At("transition_times")
    /\ LET m == mul_u32(header.timecnt, time_size(header))
       IN IF m.overflow /\ overflow_checks THEN Panic(position)
          ELSE LET r == transition_times_loop(m.value, time_size(header), position, <<>>)
               IN IF ~r.ok THEN Panic(r.pos)
                  ELSE /\ position' = r.pos
                       /\ data' = [data EXCEPT !.transition_times = r.items]
                       /\ pc' = "transition_types"
                       /\ UNCHANGED <<result, version, header>>
    /\ Frame

\* One walk_until_with_condition! stage: n elements into field of data
FilteredRun(n, which, field, next) ==
    LET r == walk_until_with_condition(position, n, which, header.typecnt, <<>>)
    IN IF ~r.ok THEN Panic(r.pos)
       ELSE /\ position' = r.pos
            /\ data' = [data EXCEPT ![field] = r.items]
            /\ pc' = next
            /\ UNCHANGED <<result, version, header>>

read_transition_types ==
    /\ At("transition_types")
    /\ FilteredRun(header.timecnt, "lt_typecnt_minus_1", "transition_types",
                   "local_time_types")
    /\ Frame

read_local_time_types ==
    /\ At("local_time_types")
    /\ LET r == local_time_type_loop(header.typecnt, position, <<>>)
       IN IF ~r.ok THEN Panic(r.pos)
          ELSE /\ position' = r.pos
               /\ data' = [data EXCEPT !.local_time_type_records = r.items]
               /\ pc' = "designations"
               /\ UNCHANGED <<result, version, header>>
    /\ Frame

read_designations ==
    /\ At("designations")
    /\ FilteredRun(header.charcnt, "lt_typecnt_minus_1", "time_zone_designations",
                   "leap_seconds")
    /\ Frame

read_leap_seconds ==
    /\ At("leap_seconds")
    /\ LET r == leap_second_loop(0, header.typecnt, header.version, position, <<>>)
       IN IF ~r.ok THEN Panic(r.pos)
          ELSE /\ position' = r.pos
               /\ data' = [data EXCEPT !.leap_second_records = r.items]
               /\ pc' = "standard_wall"
               /\ UNCHANGED <<result, version, header>>
    /\ Frame

read_standard_wall ==
    /\ At("standard_wall")
    /\ FilteredRun(header.isstdcnt, "is_zero_or_one", "standard_wall_indicators",
                   "ut_local")
    /\ Frame

\* the last run, then Some((header, data))
read_ut_local ==
    /\ At("ut_local")
    /\ LET r == walk_until_with_condition(position, header.isutcnt, "is_zero_or_one",
                                          header.typecnt, <<>>)
       IN IF ~r.ok THEN Panic(r.pos)
          ELSE /\ position' = r.pos
               /\ data' = [data EXCEPT !.ut_local_indicators = r.items]
               /\ result' = "Some"
               /\ pc' = "returned"
               /\ UNCHANGED <<version, header>>
    /\ Frame

\* if let Some((header, data)) = tz_info { if header.version > 1 {
\*     let tz_info = Self::read_tz_info(&mut tz_info_bytes); .. } }
timezone_offset_second_pass ==
    /\ pc = "returned" /\ result = "Some" /\ pass = 1 /\ header.version > 1
    /\ pass' = 2
    /\ block_start' = position
    /\ pc' = "magic"
    /\ result' = "running"
    /\ version' = 0 /\ header' = NoHeader /\ data' = EmptyData
    /\ UNCHANGED <<buffer, position, overflow_checks, kind, timevars, statusvars>>

\* timezone_offset returns `offset`; Time::new builds the widget with it
offset == 0

timezone_offset_return ==
    /\ pc = "returned"
    /\ ~(result = "Some" /\ pass = 1 /\ header.version > 1)
    /\ pc' = "constructed"
    /\ name' = "time"
    /\ full_text' = ""
    /\ color' = NEUTRAL
    /\ tz_offset' = offset
    /\ UNCHANGED <<buffer, position, overflow_checks, kind, pass, block_start,
                   result, version, header, data, clock, ticks, epoch, last_op,
                   displayed, statusvars>>

Next ==
    \/ read_magic
    \/ read_version
    \/ skip_reserved
    \/ read_counts
    \/ read_transition_times
    \/ read_transition_types
    \/ read_local_time_types
    \/ read_designations
    \/ read_leap_seconds
    \/ read_standard_wall
    \/ read_ut_local
    \/ timezone_offset_second_pass
    \/ timezone_offset_return

Spec == Init /\ [][Next]_vars

(***************************************************************************)
(* Claims about the decoder, checked under Spec.                           *)
(***************************************************************************)
HasBytes(n) == block_start + n <= Len(buffer)
BlockBytes(from, n) == SubSeq(buffer, block_start + from + 1, block_start + from + n)
MagicOk == HasBytes(4) /\ BlockBytes(0, 4) = MAGIC
VersionByteOk == HasBytes(5) /\ buffer[block_start + 5] \in {0, 50, 51, 52}
U32At(from) == from_le_bytes_unsigned(BlockBytes(from, 4))

\* C1: Time::new -> timezone_offset never aborts, whatever the bytes of the
\* time-zone file are: no read_tz_info call ends in a panic.
C1_NeverAborts == result # "panic"

\* C2: read_tz_info returns None, with no header and no data block and the
\* cursor just behind the offending bytes, whenever the first 4 bytes are not
\* "TZif" or the fifth byte is none of 0x00, 0x32, 0x33, 0x34; it returns None
\* for no other reason; the four recognized bytes decode to versions 1, 2, 3, 4.
C2_RejectsBadMagicOrVersion ==
    /\ (HasBytes(4) /\ ~MagicOk /\ pc # "magic")
          => (result = "None" /\ position = block_start + 4)
    /\ (MagicOk /\ HasBytes(5) /\ ~VersionByteOk /\ pc \notin {"magic", "version"})
          => (result = "None" /\ position = block_start + 5)
    /\ result = "None"
          => /\ header = NoHeader /\ data = EmptyData /\ version = 0
             /\ (~MagicOk \/ ~VersionByteOk)
    /\ version # 0
          => /\ MagicOk
             /\ \/ buffer[block_start + 5] = 0 /\ version = 1
                \/ buffer[block_start + 5] = 50 /\ version = 2
                \/ buffer[block_start + 5] = 51 /\ version = 3
                \/ buffer[block_start + 5] = 52 /\ version = 4
    /\ header # NoHeader => header.version = version

\* C2's case: a file with the magic and an unrecognized version byte, rejected
C2_Witness ==
    /\ result = "None" /\ pc = "returned"
    /\ MagicOk /\ buffer[block_start + 5] = 49

\* C3: the minimal version-1 file decodes, and its data block holds exactly
\* the local time type record (3600, 0, 0).
C3_MinimalV1Decodes ==
    kind = "minimal"
        => /\ result # "panic"
           /\ pc \in {"returned", "constructed"}
                 => /\ result = "Some"
                    /\ data.local_time_type_records = << <<3600, 0, 0>> >>

\* the retention rule of the leap-second pass, on the records the pass reads:
\* the first is kept, a later one iff it is at least 2419199 after the last kept
RECURSIVE RefRetain(_, _)
RefRetain(records, kept) ==
    IF records = <<>> THEN kept
    ELSE LET r == Head(records)
             d == u64_sub(r[1], kept[Len(kept)][1])
         IN RefRetain(Tail(records),
                IF kept = <<>> \/ (~d.overflow /\ ge_2419199(d.bytes))
                THEN Append(kept, r) ELSE kept)

AfterLeap == {"standard_wall", "ut_local", "returned", "constructed"}

\* C4: the leap-second pass completes and follows the retention rule; for the
\* occurrences 0, 2419198, 2419199 it retains the occurrences 0 and 2419199.
C4_LeapRetention ==
    kind = "leap"
        => /\ pc = "leap_seconds" => result # "panic"
           /\ pc \in AfterLeap
                 => data.leap_second_records
                        = RefRetain(<< <<Enc(LeapOccurrences[1], 8), 1>>,
                                       <<Enc(LeapOccurrences[2], 8), 2>>,
                                       <<Enc(LeapOccurrences[3], 8), 3>> >>, <<>>)

\* C5: the transition-time pass decodes timecnt elements of time_size bytes:
\* behind it the cursor is timecnt * time_size bytes behind the header, and at
\* most timecnt values are retained.  (The cursor never leaves the buffer, so
\* timecnt is then at most its length; stated first to keep the product small.)
C5_TransitionTimesRun ==
    At("transition_types")
        => /\ header.timecnt <= Len(buffer)
           /\ position = block_start + 44 + header.timecnt * time_size(header)
           /\ Len(data.transition_times) <= header.timecnt

\* the length of the first block of the file, laid out with 4-byte times
FirstBlockLen ==
    BlockLen(Counts(from_le_bytes_unsigned(SubSeq(buffer, 21, 24)),
                    from_le_bytes_unsigned(SubSeq(buffer, 25, 28)),
                    from_le_bytes_unsigned(SubSeq(buffer, 29, 32)),
                    from_le_bytes_unsigned(SubSeq(buffer, 33, 36)),
                    from_le_bytes_unsigned(SubSeq(buffer, 37, 40)),
                    from_le_bytes_unsigned(SubSeq(buffer, 41, 44))), 4)

\* C6: on a dual-block file the first pass consumes exactly the first block,
\* the second pass starts at the second header and decodes the second block.
C6_DualBlockSecondPass ==
    kind = "dual"
        => /\ result # "panic"
           /\ pass = 2 => block_start = FirstBlockLen
           /\ pc = "constructed"
                 => pass = 2 /\ result = "Some" /\ position = Len(buffer)

\* C9: when the data block starts, the cursor is 44 bytes behind the start of
\* the block and the counts are the six u32 behind the reserved bytes, in the
\* order isutcnt, isstdcnt, leapcnt, timecnt, typecnt, charcnt.
C9_HeaderIs44Bytes ==
    At("transition_times")
        => /\ position = block_start + 44
           /\ header.version = version
           /\ header.isutcnt = U32At(20)
           /\ header.isstdcnt = U32At(24)
           /\ header.leapcnt = U32At(28)
           /\ header.timecnt = U32At(32)
           /\ header.typecnt = U32At(36)
           /\ header.charcnt = U32At(40)

\* C9's case: a header whose counts differ has been decoded
C9_Witness ==
    /\ At("transition_times")
    /\ header.timecnt = 1 /\ header.typecnt = 0 /\ header.isutcnt = 1
    /\ header.version = 3

(***************************************************************************)
(* The civil-time converter of Time::now and the Widget operations.        *)
(***************************************************************************)
MaxDay == 800
MaxTicks == 1

SECONDS_IN_A_MINUTE == 60
SECONDS_IN_AN_HOUR == 60 * 60
SECONDS_IN_A_DAY == 24 * 60 * 60

is_leap_year_no_400(year) == year % 4 = 0 /\ year % 100 # 0

is_leap_year(year) == (year % 4 = 0 /\ year % 100 # 0) \/ (year % 400 = 0)

days_in_year(year) == IF is_leap_year(year) THEN 366 ELSE 365

\* -1 stands for the panic of the `_` arm
days_in_month(month, year) ==
    IF month \in {1, 3, 5, 7, 8, 10, 12} THEN 31
    ELSE IF month \in {4, 6, 9, 11} THEN 30
    ELSE IF month = 2 THEN (IF is_leap_year(year) THEN 29 ELSE 28)
    ELSE -1

\* while total_days >= days_in_year(current_year) { .. }
RECURSIVE year_loop(_, _)
year_loop(total_days, current_year) ==
    IF total_days >= days_in_year(current_year)
    THEN year_loop(total_days - days_in_year(current_year), current_year + 1)
    ELSE [total_days |-> total_days, current_year |-> current_year]

\* while total_days >= days_in_month(current_month, current_year) { .. }
RECURSIVE month_loop(_, _, _)
month_loop(total_days, current_month, current_year) ==
    LET d == days_in_month(current_month, current_year)
    IN IF d = -1
       THEN [panic |-> TRUE, total_days |-> total_days, current_month |-> current_month]
       ELSE IF total_days >= d
       THEN month_loop(total_days - d, current_month + 1, current_year)
       ELSE [panic |-> FALSE, total_days |-> total_days, current_month |-> current_month]

\* the fields now() computes from the adjusted epoch e
civil(e) ==
    LET y == year_loop(e \div SECONDS_IN_A_DAY, 1970)
        m == month_loop(y.total_days, 1, y.current_year)
        e1 == e % SECONDS_IN_A_DAY
        e2 == e1 % SECONDS_IN_AN_HOUR
    IN [panic |-> m.panic,
        current_year |-> y.current_year,
        current_month |-> m.current_month,
        current_day |-> m.total_days + 1,
        hours |-> e1 \div SECONDS_IN_AN_HOUR,
        minutes |-> e2 \div SECONDS_IN_A_MINUTE,
        seconds |-> e2 % SECONDS_IN_A_MINUTE]

DigitChars == <<"0", "1", "2", "3", "4", "5", "6", "7", "8", "9">>

\* {} of a non-negative number
RECURSIVE display(_)
display(n) ==
    IF n < 10 THEN DigitChars[n + 1] ELSE display(n \div 10) \o DigitChars[(n % 10) + 1]

\* {:02}
display_02(n) == IF n < 10 THEN "0" \o display(n) ELSE display(n)

\* format!("{:02}.{:02}.{current_year} {:02}:{:02}:{:02}", ..)
format(c) ==
    display_02(c.current_day) \o "." \o display_02(c.current_month) \o "."
        \o display(c.current_year) \o " " \o display_02(c.hours) \o ":"
        \o display_02(c.minutes) \o ":" \o display_02(c.seconds)

\* the clock readings the widget is constructed at: every day up to MaxDay,
\* the days around 29.02.2000 and the ends of 1999 and 2000, at the start,
\* the middle and the last second of the day
StartDays == (0..MaxDay) \cup {10956, 10957, 11015, 11016, 11017, 11322, 11323}
StartSeconds == {0, 59, 43200, 86399}

\* Time::new has returned: the state timezone_offset_return leaves
InitTime ==
    /\ buffer = <<>> /\ position = 0 /\ overflow_checks = FALSE /\ kind = "none"
    /\ pass = 1 /\ block_start = 0 /\ pc = "constructed" /\ result = "None"
    /\ version = 0 /\ header = NoHeader /\ data = EmptyData
    /\ name = "time" /\ full_text = "" /\ color = NEUTRAL /\ tz_offset = offset
    /\ \E d \in StartDays, sec \in StartSeconds : clock = d * SECONDS_IN_A_DAY + sec
    /\ ticks = 0 /\ epoch = 0 /\ last_op = "new"
    /\ displayed = Serialized("", "", "", 0)
    /\ StatusIdle

\* the system clock advances by a second
tick ==
    /\ ticks < MaxTicks
    /\ ticks' = ticks + 1
    /\ clock' = clock + 1
    /\ UNCHANGED <<name, full_text, color, tz_offset, epoch, last_op, displayed,
                   tzvars, statusvars>>

\* a mutation of update: the offset is derived again on every update
update_rederiving_offset ==
    /\ last_op # "panic"
    /\ epoch' = clock + tz_offset
    /\ LET c == civil(clock + tz_offset)
       IN IF c.panic
          THEN last_op' = "panic" /\ UNCHANGED full_text
          ELSE last_op' = "update" /\ full_text' = format(c)
    /\ tz_offset' = SECONDS_IN_AN_HOUR
    /\ UNCHANGED <<name, color, clock, ticks, displayed, tzvars, statusvars>>

\* fn update(&mut self) { self.full_text = self.now(); }
\* now() either reaches the panic of days_in_month or gives the text
update ==
    /\ last_op # "panic"
    /\ epoch' = clock + tz_offset
    /\ LET c == civil(clock + tz_offset)
       IN IF c.panic
          THEN last_op' = "panic" /\ UNCHANGED full_text
          ELSE last_op' = "update" /\ full_text' = format(c)
    /\ UNCHANGED <<name, color, tz_offset, clock, ticks, displayed, tzvars, statusvars>>

\* fn display_text(&self) -> Result<Value, WidgetError> { Ok(to_value(self)?) }
display_text ==
    /\ last_op # "panic"
    /\ displayed' = Serialized(name, full_text, color, tz_offset)
    /\ last_op' = "display_text"
    /\ UNCHANGED <<name, full_text, color, tz_offset, clock, ticks, epoch,
                   tzvars, statusvars>>

NextTime ==
    \/ tick
    \/ update
    \/ display_text

SpecTime == InitTime /\ [][NextTime]_vars

(***************************************************************************)
(* Claims about the Time widget, checked under SpecTime.                   *)
(***************************************************************************)
\* the Gregorian calendar, stated apart from the code
GregorianLeap(y) == (y % 4 = 0 /\ y % 100 # 0) \/ y % 400 = 0
GregorianMonthLength(m, y) ==
    IF m = 2 THEN (IF GregorianLeap(y) THEN 29 ELSE 28)
    ELSE IF m \in {4, 6, 9, 11} THEN 30 ELSE 31

RECURSIVE DaysInYears(_, _)
DaysInYears(from, to) ==
    IF from >= to THEN 0
    ELSE (IF GregorianLeap(from) THEN 366 ELSE 365) + DaysInYears(from + 1, to)

RECURSIVE DaysInMonths(_, _)
DaysInMonths(m, y) ==
    IF m <= 1 THEN 0 ELSE GregorianMonthLength(m - 1, y) + DaysInMonths(m - 1, y)

\* C7: for the adjusted epoch e of an update, now() does not reach the
\* invalid-month panic and gives year >= 1970, month in 1..12, day within the
\* month, hour in 0..23, minute and second in 0..59, which reconstruct e;
\* the text is their rendering, and e = 0 renders as 01.01.1970 00:00:00.
C7_CivilTimeReconstructs ==
    /\ last_op # "panic"
    /\ last_op = "update" =>
          LET c == civil(epoch)
          IN /\ ~c.panic
             /\ c.current_year >= 1970
             /\ c.current_month \in 1..12
             /\ c.current_day \in 1..GregorianMonthLength(c.current_month, c.current_year)
             /\ c.hours \in 0..23 /\ c.minutes \in 0..59 /\ c.seconds \in 0..59
             /\ (DaysInYears(1970, c.current_year)
                    + DaysInMonths(c.current_month, c.current_year)
                    + c.current_day - 1) * 86400
                  + c.hours * 3600 + c.minutes * 60 + c.seconds = epoch
             /\ full_text = format(c)
             /\ epoch = 0 => full_text = "01.01.1970 00:00:00"
             /\ epoch = 86400 * 365 * 2 + 43200 => full_text = "01.01.1972 12:00:00"

\* C7's case: an update on the leap day of 2000, a second before midnight
C7_Witness ==
    /\ last_op = "update"
    /\ epoch = 11016 * 86400 + 86399
    /\ full_text = "29.02.2000 23:59:59"

\* C10: no step changes name, color or tz_offset; only update() changes
\* full_text, and the text it stores is the rendering of the clock plus the
\* offset computed at construction; display_text() changes no field.
C10_OnlyTextChanges ==
    [][ /\ name' = name /\ color' = color /\ tz_offset' = tz_offset
        /\ tz_offset = offset
        /\ full_text' # full_text => last_op' = "update"
        /\ (last_op' = "update" /\ <<epoch, last_op, full_text>>' # <<epoch, last_op, full_text>>)
              => full_text' = format(civil(clock + offset))
        /\ displayed' # displayed
              => displayed' = Serialized(name, full_text, color, tz_offset)
      ]_vars

\* C10's case: the widget has been updated, displayed, updated again after
\* the clock advanced, and the value displayed still shows the first text
C10_Witness ==
    /\ last_op = "update" /\ ticks = 1
    /\ displayed.full_text # "" /\ displayed.full_text # full_text
    /\ displayed.tz_offset = tz_offset /\ displayed.name = name

(***************************************************************************)
(* I3Status: new, update_widgets, widget_values and the loop of init.      *)
(***************************************************************************)
MaxWidgets == 2
MaxOrder == 2
MaxRounds == 2

WidgetNames == {"time", "battery", "wifi"}

SeqsUpTo(S, n) == UNION {[1..k -> S] : k \in 0..n}

\* I3Status::new: executors.insert(widget.name().to_string(), ..) for each
\* widget in turn; a later widget of the same name replaces the earlier one.
\* An executor is held as the place of its widget in the Vec.
RECURSIVE new(_, _, _)
new(ws, i, executors) ==
    IF i > Len(ws) THEN executors
    ELSE new(ws, i + 1,
             [n \in (DOMAIN executors) \cup {ws[i]} |->
                 IF n = ws[i] THEN i ELSE executors[n]])

\* the value an executor answers WidgetValue with: its widget's display_text()
conf(widget_name) == [name |-> widget_name, widget |-> widget_executors[widget_name]]

InitStatus ==
    /\ buffer = <<>> /\ position = 0 /\ overflow_checks = FALSE /\ kind = "none"
    /\ pass = 1 /\ block_start = 0 /\ pc = "constructed" /\ result = "None"
    /\ version = 0 /\ header = NoHeader /\ data = EmptyData
    /\ NotBuilt
    /\ widgets \in SeqsUpTo(WidgetNames, MaxWidgets)
    /\ widget_order \in SeqsUpTo(WidgetNames, MaxOrder)
    /\ widget_executors = new(widgets, 1, <<>>)
    /\ updates = 0 /\ st_pc = "init" /\ idx = 0
    /\ values = <<>> /\ outcomes = <<>> /\ printed = <<>>

StatusFrame == UNCHANGED <<widgets, widget_executors, widget_order, tzvars, timevars>>

\* init: self.update_widgets(), the three println!, then the loop calls
\* widget_values(): let mut values = json!([])
init_start ==
    /\ st_pc = "init"
    /\ updates' = updates + 1
    /\ st_pc' = "widget_values"
    /\ idx' = 1 /\ values' = <<>> /\ outcomes' = <<>>
    /\ UNCHANGED printed
    /\ StatusFrame

Sending ==
    /\ st_pc = "widget_values"
    /\ idx <= Len(widget_order)
    /\ widget_order[idx] \in DOMAIN widget_executors

\* Ok(Ok(conf)) => values.as_array_mut().expect(..).push(conf)
answer_value ==
    /\ Sending
    /\ values' = Append(values, conf(widget_order[idx]))
    /\ outcomes' = Append(outcomes, "Ok(Ok)")
    /\ idx' = idx + 1
    /\ UNCHANGED <<updates, st_pc, printed>>
    /\ StatusFrame

\* a mutation of answer_error: the batch is given up at the first error
answer_error_breaking ==
    /\ Sending
    /\ outcomes' = Append(outcomes, "Ok(Err)")
    /\ idx' = Len(widget_order) + 1
    /\ UNCHANGED <<values, updates, st_pc, printed>>
    /\ StatusFrame

\* Ok(Err(error)) => { log::warn!(..); continue; }
answer_error ==
    /\ Sending
    /\ outcomes' = Append(outcomes, "Ok(Err)")
    /\ idx' = idx + 1
    /\ UNCHANGED <<values, updates, st_pc, printed>>
    /\ StatusFrame

\* _ => { log::error!(..); continue; }: the executor did not answer
no_answer ==
    /\ Sending
    /\ outcomes' = Append(outcomes, "Err")
    /\ idx' = idx + 1
    /\ UNCHANGED <<values, updates, st_pc, printed>>
    /\ StatusFrame

\* .get(&widget_name).expect("ERROR: Unknown widget name")
unknown_widget ==
    /\ st_pc = "widget_values"
    /\ idx <= Len(widget_order)
    /\ widget_order[idx] \notin DOMAIN widget_executors
    /\ st_pc' = "panic"
    /\ UNCHANGED <<updates, idx, values, outcomes, printed>>
    /\ StatusFrame

\* widget_values returns values; println!(",{}", ..); thread::sleep;
\* self.update_widgets(); and the loop calls widget_values() again
print_and_update ==
    /\ st_pc = "widget_values"
    /\ idx > Len(widget_order)
    /\ updates < MaxRounds
    /\ printed' = values
    /\ updates' = updates + 1
    /\ idx' = 1 /\ values' = <<>> /\ outcomes' = <<>>
    /\ UNCHANGED st_pc
    /\ StatusFrame

NextStatus ==
    \/ init_start
    \/ answer_value
    \/ answer_error
    \/ no_answer
    \/ unknown_widget
    \/ print_and_update

SpecStatus == InitStatus /\ [][NextStatus]_vars

(***************************************************************************)
(* Claim about I3Status, checked under SpecStatus.                         *)
(***************************************************************************)
\* the values of the first k names of the order whose request succeeded
RECURSIVE Succeeded(_)
Succeeded(k) ==
    IF k = 0 THEN <<>>
    ELSE IF outcomes[k] = "Ok(Ok)"
    THEN Append(Succeeded(k - 1),
                [name |-> widget_order[k], widget |-> widget_executors[widget_order[k]]])
    ELSE Succeeded(k - 1)

OrderRegistered == \A i \in 1..Len(widget_order) : widget_order[i] \in DOMAIN widget_executors

\* C8: when the order names registered widgets only, widget_values does not
\* panic, asks every name of the order once, and its batch holds exactly the
\* values of the requests that succeeded, in the order of the configuration:
\* an error or an executor that does not answer drops that widget alone.
C8_BatchHoldsSucceeded ==
    (OrderRegistered /\ st_pc # "init")
        => /\ st_pc = "widget_values"
           /\ idx \in 1..(Len(widget_order) + 1)
           /\ Len(outcomes) = idx - 1
           /\ values = Succeeded(idx - 1)

\* C8's case: a batch is complete in which the first request failed, the
\* second did not answer or failed too, or succeeded, and a value behind a
\* failure is in the batch
C8_Witness ==
    /\ st_pc = "widget_values" /\ idx = Len(widget_order) + 1
    /\ Len(widget_order) >= 2
    /\ outcomes[1] # "Ok(Ok)" /\ outcomes[2] = "Ok(Ok)"
    /\ values = <<[name |-> widget_order[2], widget |-> widget_executors[widget_order[2]]]>>

====
